---------------------------- MODULE Spec2Model ----------------------------
(***************************************************************************)
(* Model of src/minesweeper.py: the Sentence class, the MinesweeperAI      *)
(* inference engine and the part of the Minesweeper board the engine's     *)
(* caller consults (nearby_mines).                                         *)
(*                                                                         *)
(* A Python list of Sentence objects is a sequence of records; a Python    *)
(* set is a set.  Every method call is one atomic action: the program is   *)
(* single threaded and every method runs to completion.                    *)
(***************************************************************************)
EXTENDS Integers, Naturals, Sequences, FiniteSets, TLC

\* ---------------------------------------------------------------- bounds
\* The <<height, width>> pairs an engine (and its board) is constructed with:
\* the 3x3 board of the specification's end-to-end scenarios and smaller ones.
Boards == {<<1, 2>>, <<2, 2>>, <<2, 3>>, <<3, 3>>}
\* Largest count the caller passes to add_knowledge in the unconstrained
\* specification (a cell has at most 8 neighbours).
MaxCount == 2
\* Number of mutating calls (add_knowledge, mark_safe, mark_mine) in a run of
\* the unconstrained specification.
MaxCalls == 3
\* Number of add_knowledge calls in a run of the game specification.
MaxReveals == 3
\* Number of add_knowledge calls in a run of the game specification with move
\* queries.
MaxPlayReveals == 2
\* The boards whose cells a Sentence under unit exercise is built from.
SmallBoards == {<<1, 2>>, <<2, 2>>}
\* Number of mark_mine / mark_safe calls on a Sentence under unit exercise.
MaxMarks == 2

\* ------------------------------------------------------ program constants
\* The literal 8 of make_random_move: the assumed number of mines on the board.
TotalMines == 8

\* ------------------------------------------------------------------ state
VARIABLES
    height,       \* MinesweeperAI.height (and Minesweeper.height)
    width,        \* MinesweeperAI.width (and Minesweeper.width)
    moves_made,   \* MinesweeperAI.moves_made
    safes,        \* MinesweeperAI.safes
    mines,        \* MinesweeperAI.mines
    knowledge,    \* MinesweeperAI.knowledge, a list of sentences
    board,        \* Minesweeper.mines: the cells of the board that hold a mine
    op,           \* the method that ran last
    arg,          \* its arguments
    result,       \* what it returned (or that it raised)
    calls,        \* number of mutating calls made so far
    sentence,     \* a Sentence object exercised on its own
    initial,      \* that Sentence as its constructor left it
    marks,        \* the mark_mine / mark_safe calls made on it, in order
    returned      \* what its last known_mines / known_safes call returned

vars == <<height, width, moves_made, safes, mines, knowledge, board, op, arg, result, calls,
          sentence, initial, marks, returned>>

\* The state of the Sentence exercised on its own.
unit == <<sentence, initial, marks, returned>>

\* The cells of the board.
Cells == (0 .. height - 1) \X (0 .. width - 1)

\* ---------------------------------------------------------------- Sentence
Sentence(cells, count) == [cells |-> cells, count |-> count]

\* A method result that is either None or a set of cells.
NoneSet == [isNone |-> TRUE, cells |-> {}]
SomeSet(cs) == [isNone |-> FALSE, cells |-> cs]
\* Python truthiness of such a result: None and the empty set are falsy.
Truthy(r) == ~r.isNone /\ r.cells # {}

known_mines_NoZeroGuard(s) ==
    IF Cardinality(s.cells) = s.count THEN SomeSet(s.cells) ELSE NoneSet

known_mines_AnyPositive(s) ==
    IF Cardinality(s.cells) >= s.count /\ s.count # 0 THEN SomeSet(s.cells) ELSE NoneSet

known_mines(s) ==
    IF Cardinality(s.cells) = s.count /\ s.count # 0 THEN SomeSet(s.cells) ELSE NoneSet

known_safes_WhenEmpty(s) ==
    IF Cardinality(s.cells) = 0 THEN SomeSet(s.cells) ELSE NoneSet

known_safes(s) ==
    IF s.count = 0 THEN SomeSet(s.cells) ELSE NoneSet

SentenceMarkMine_KeepCount(s, cell) ==
    IF cell \in s.cells
    THEN Sentence(s.cells \ {cell}, s.count)
    ELSE s

SentenceMarkMine(s, cell) ==
    IF cell \in s.cells
    THEN Sentence(s.cells \ {cell}, s.count - 1)
    ELSE s

SentenceMarkSafe(s, cell) ==
    IF cell \in s.cells
    THEN Sentence(s.cells \ {cell}, s.count)
    ELSE s

\* ------------------------------------------------ engine state as a value
\* The three fields a call of add_knowledge works on after step 1.
Engine(sf, mn, kb) == [safes |-> sf, mines |-> mn, knowledge |-> kb]

EngineMarkMine_FirstOnly(e, cell) ==
    Engine(e.safes, e.mines \cup {cell},
           [i \in DOMAIN e.knowledge |->
               IF i = 1 THEN SentenceMarkMine(e.knowledge[i], cell) ELSE e.knowledge[i]])

\* MinesweeperAI.mark_mine on an engine value.
EngineMarkMine(e, cell) ==
    Engine(e.safes, e.mines \cup {cell},
           [i \in DOMAIN e.knowledge |-> SentenceMarkMine(e.knowledge[i], cell)])

EngineMarkSafe_FactOnly(e, cell) ==
    Engine(e.safes \cup {cell}, e.mines, e.knowledge)

\* MinesweeperAI.mark_safe on an engine value.
EngineMarkSafe(e, cell) ==
    Engine(e.safes \cup {cell}, e.mines,
           [i \in DOMAIN e.knowledge |-> SentenceMarkSafe(e.knowledge[i], cell)])

\* for cell in <copy of a conclusion set>: self.mark_safe(cell)
RECURSIVE MarkAllSafe(_, _)
MarkAllSafe(e, cs) ==
    IF cs = {} THEN e
    ELSE LET c == CHOOSE x \in cs : TRUE
         IN  MarkAllSafe(EngineMarkSafe(e, c), cs \ {c})

\* for cell in <copy of a conclusion set>: self.mark_mine(cell)
RECURSIVE MarkAllMines(_, _)
MarkAllMines(e, cs) ==
    IF cs = {} THEN e
    ELSE LET c == CHOOSE x \in cs : TRUE
         IN  MarkAllMines(EngineMarkMine(e, c), cs \ {c})

\* ---------------------------------------------------------- add_knowledge
\* range(cell[0] - 1, cell[0] + 2) x range(cell[1] - 1, cell[1] + 2):
\* the 3x3 block around cell, out-of-bounds positions included.
Block(cell) == ((cell[1] - 1) .. (cell[1] + 1)) \X ((cell[2] - 1) .. (cell[2] + 1))

InBounds(c) == 0 <= c[1] /\ c[1] < height /\ 0 <= c[2] /\ c[2] < width

NewSentence_NoDecrement(e, cell, count) ==
    Sentence({c \in Block(cell) :
                 c # cell /\ c \notin e.safes /\ c \notin e.mines /\ InBounds(c)},
             count)

\* The sentence built by the neighbour loop, in an engine where cell has
\* already been marked safe.
NewSentence(e, cell, count) ==
    LET considered == {c \in Block(cell) : c # cell /\ c \notin e.safes}
        minedNbrs  == considered \cap e.mines
        undetermined_cells == {c \in considered \ e.mines : InBounds(c)}
    IN  Sentence(undetermined_cells, count - Cardinality(minedNbrs))

\* The conclusion loop "for sentence in self.knowledge", from list position i
\* (1-based) on.  The list keeps its length; its sentences change in place.
RECURSIVE ConclusionPass(_, _)
ConclusionPass(e, i) ==
    IF i > Len(e.knowledge) THEN e
    ELSE LET s  == e.knowledge[i]
             e1 == IF Truthy(known_safes(s))
                   THEN MarkAllSafe(e, s.cells)
                   ELSE e
             s1 == e1.knowledge[i]
             e2 == IF Truthy(known_mines(s1))
                   THEN MarkAllMines(e1, s1.cells)
                   ELSE e1
         IN  ConclusionPass(e2, i + 1)

\* list.remove(x): drops the first element equal to x.
RECURSIVE RemoveFirst(_, _)
RemoveFirst(kb, s) ==
    IF kb = <<>> THEN kb
    ELSE IF Head(kb) = s THEN Tail(kb)
    ELSE <<Head(kb)>> \o RemoveFirst(Tail(kb), s)

\* x in list
InList(kb, s) == \E j \in DOMAIN kb : kb[j] = s

Resolve_NoDedup(kb, s, new) ==
    IF /\ new.cells # s.cells
       /\ new.cells \subseteq s.cells
       /\ s.count > 0
       /\ new.count > 0
    THEN Append(kb, Sentence(s.cells \ new.cells, s.count - new.count))
    ELSE kb

\* Lines 252-265: what one visited sentence adds to the list.
Resolve(kb, s, new) ==
    IF /\ new.cells # s.cells
       /\ new.cells \subseteq s.cells
       /\ s.count > 0
       /\ new.count > 0
    THEN LET new_subset_sentence == Sentence(s.cells \ new.cells, s.count - new.count)
         IN  IF InList(kb, new_subset_sentence) THEN kb
             ELSE Append(kb, new_subset_sentence)
    ELSE kb

\* The resolution loop "for sentence in self.knowledge", from list position i
\* (1-based) on.  The list iterator holds a position: a removal shifts the
\* later sentences down by one and the position still advances, and appended
\* sentences are visited in turn.
RECURSIVE ResolutionPass(_, _, _)
ResolutionPass(kb, i, new) ==
    IF i > Len(kb) THEN kb
    ELSE LET s   == kb[i]
             kb1 == IF s.cells = {} THEN RemoveFirst(kb, s) ELSE kb
         IN  ResolutionPass(Resolve(kb1, s, new), i + 1, new)

\* The number of sentences the resolution loop visits from list position i
\* on: one per iteration of "for sentence in self.knowledge".
RECURSIVE ResolutionVisits(_, _, _)
ResolutionVisits(kb, i, new) ==
    IF i > Len(kb) THEN 0
    ELSE LET s   == kb[i]
             kb1 == IF s.cells = {} THEN RemoveFirst(kb, s) ELSE kb
         IN  1 + ResolutionVisits(Resolve(kb1, s, new), i + 1, new)

\* The engine after add_knowledge(cell, count), from the engine before it.
AfterAddKnowledge(e, cell, count) ==
    LET e1  == EngineMarkSafe(e, cell)
        kb1 == Append(e1.knowledge, NewSentence(e1, cell, count))
        n   == Len(kb1)
        e2  == ConclusionPass(Engine(e1.safes, e1.mines, kb1), 1)
        \* new_knowledge_sentence is the object at position n, as mutated
        new == e2.knowledge[n]
    IN  Engine(e2.safes, e2.mines, ResolutionPass(e2.knowledge, 1, new))

Current == Engine(safes, mines, knowledge)

NoResult == [kind |-> "none", cell |-> <<-1, -1>>]
NoArg == [cell |-> <<-1, -1>>, count |-> 0]

add_knowledge(cell, count) ==
    LET e == AfterAddKnowledge(Current, cell, count)
    IN  /\ moves_made' = moves_made \cup {cell}
        /\ safes' = e.safes
        /\ mines' = e.mines
        /\ knowledge' = e.knowledge
        /\ op' = "add_knowledge"
        /\ arg' = [cell |-> cell, count |-> count]
        /\ result' = NoResult
        /\ calls' = calls + 1
        /\ UNCHANGED <<height, width, board, unit>>

mark_mine(cell) ==
    LET e == EngineMarkMine(Current, cell)
    IN  /\ safes' = e.safes
        /\ mines' = e.mines
        /\ knowledge' = e.knowledge
        /\ op' = "mark_mine"
        /\ arg' = [cell |-> cell, count |-> 0]
        /\ result' = NoResult
        /\ calls' = calls + 1
        /\ UNCHANGED <<moves_made, height, width, board, unit>>

mark_safe(cell) ==
    LET e == EngineMarkSafe(Current, cell)
    IN  /\ safes' = e.safes
        /\ mines' = e.mines
        /\ knowledge' = e.knowledge
        /\ op' = "mark_safe"
        /\ arg' = [cell |-> cell, count |-> 0]
        /\ result' = NoResult
        /\ calls' = calls + 1
        /\ UNCHANGED <<moves_made, height, width, board, unit>>

\* ---------------------------------------------------------- make_safe_move
CellResult(c) == [kind |-> "cell", cell |-> c]
Raised == [kind |-> "raised", cell |-> <<-1, -1>>]

\* The values the loop over self.safes can return: a Python set is iterated in
\* an order the program does not control, so the first cell that is not in
\* moves_made can be any such cell; None when the loop finds none.
SafeMoveResults_AnySafe(sf, mm) ==
    IF sf # {} THEN {CellResult(c) : c \in sf} ELSE {NoResult}

SafeMoveResults(sf, mm) ==
    IF \E c \in sf : c \notin mm
    THEN {CellResult(c) : c \in {x \in sf : x \notin mm}}
    ELSE {NoResult}

make_safe_move_recording ==
    /\ result' \in SafeMoveResults(safes, moves_made)
    /\ moves_made' = IF result'.kind = "cell" THEN moves_made \cup {result'.cell}
                     ELSE moves_made
    /\ op' = "make_safe_move"
    /\ arg' = NoArg
    /\ UNCHANGED <<safes, mines, knowledge, height, width, board, calls, unit>>

make_safe_move ==
    /\ result' \in SafeMoveResults(safes, moves_made)
    /\ op' = "make_safe_move"
    /\ arg' = NoArg
    /\ UNCHANGED <<moves_made, safes, mines, knowledge, height, width, board, calls, unit>>

\* -------------------------------------------------------- make_random_move
\* A probability is the pair <<numerator, denominator>> of a Python true
\* division of two small integers; two such quotients are equal (as floats)
\* exactly when the fractions are equal.
Norm(p) == IF p[2] < 0 THEN <<-p[1], -p[2]>> ELSE p
ProbLeq(p, q) == Norm(p)[1] * Norm(q)[2] <= Norm(q)[1] * Norm(p)[2]
ProbEq(p, q) == Norm(p)[1] * Norm(q)[2] = Norm(q)[1] * Norm(p)[2]

num_mines_left(mn) == TotalMines - Cardinality(mn)

num_possible_moves(mm, mn) ==
    (height * width) - (Cardinality(mm) + Cardinality(mn))

\* The dictionary filled by the double loop over the board.
BaselineMoves(mm, mn) ==
    [c \in {x \in Cells : x \notin mm /\ x \notin mn} |->
        <<num_mines_left(mn), num_possible_moves(mm, mn)>>]

\* possible_moves[cell] = cell_to_mine_prob for every cell of sentence s.
Overwrite(pm, s) ==
    [c \in DOMAIN pm \cup s.cells |->
        IF c \in s.cells THEN <<s.count, Cardinality(s.cells)>> ELSE pm[c]]

\* The scan "for sentence in self.knowledge" of make_random_move, from list
\* position i (1-based) on: an empty sentence is removed from the list being
\* iterated and the position still advances.
RECURSIVE Scan(_, _, _)
Scan(kb, i, pm) ==
    IF i > Len(kb) THEN [knowledge |-> kb, possible_moves |-> pm]
    ELSE LET s == kb[i]
         IN  IF Cardinality(s.cells) = 0
             THEN Scan(RemoveFirst(kb, s), i + 1, pm)
             ELSE Scan(kb, i + 1, Overwrite(pm, s))

\* min(possible_moves.values()) of a non-empty dictionary.
LowestProb(pm) ==
    LET c == CHOOSE x \in DOMAIN pm : \A d \in DOMAIN pm : ProbLeq(pm[x], pm[d])
    IN  pm[c]

\* best_possible_moves: the keys whose value equals the lowest value.
BestMoves(pm) ==
    {c \in DOMAIN pm : ProbEq(pm[c], LowestProb(pm))}

\* What make_random_move does to the knowledge list and what it can return.
\* random.choice of an empty list and min of an empty dictionary raise.
RandomMove(mm, mn, kb) ==
    IF num_possible_moves(mm, mn) = 0
    THEN [knowledge |-> kb, results |-> {NoResult}]
    ELSE LET pm == BaselineMoves(mm, mn)
         IN  IF kb = <<>>
             THEN [knowledge |-> kb,
                   results |-> IF DOMAIN pm = {} THEN {Raised}
                               ELSE {CellResult(c) : c \in DOMAIN pm}]
             ELSE LET sc == Scan(kb, 1, pm)
                  IN  [knowledge |-> sc.knowledge,
                       results |-> IF DOMAIN sc.possible_moves = {} THEN {Raised}
                                   ELSE {CellResult(c) : c \in BestMoves(sc.possible_moves)}]

make_random_move ==
    LET r == RandomMove(moves_made, mines, knowledge)
    IN  /\ knowledge' = r.knowledge
        /\ result' \in r.results
        /\ op' = "make_random_move"
        /\ arg' = NoArg
        /\ UNCHANGED <<moves_made, safes, mines, height, width, board, calls, unit>>

\* ------------------------------------------------- Sentence, on its own
\* Sentence.mark_mine(cell) on the exercised Sentence.
sentence_mark_mine(cell) ==
    /\ sentence' = SentenceMarkMine(sentence, cell)
    /\ marks' = Append(marks, [op |-> "mark_mine", cell |-> cell])
    /\ op' = "Sentence.mark_mine"
    /\ UNCHANGED <<height, width, moves_made, safes, mines, knowledge, board,
                   arg, result, calls, initial, returned>>

\* Sentence.mark_safe(cell) on the exercised Sentence.
sentence_mark_safe(cell) ==
    /\ sentence' = SentenceMarkSafe(sentence, cell)
    /\ marks' = Append(marks, [op |-> "mark_safe", cell |-> cell])
    /\ op' = "Sentence.mark_safe"
    /\ UNCHANGED <<height, width, moves_made, safes, mines, knowledge, board,
                   arg, result, calls, initial, returned>>

\* Sentence.known_mines() on the exercised Sentence.
sentence_known_mines ==
    /\ returned' = known_mines(sentence)
    /\ op' = "Sentence.known_mines"
    /\ UNCHANGED <<height, width, moves_made, safes, mines, knowledge, board,
                   arg, result, calls, sentence, initial, marks>>

\* Sentence.known_safes() on the exercised Sentence.
sentence_known_safes ==
    /\ returned' = known_safes(sentence)
    /\ op' = "Sentence.known_safes"
    /\ UNCHANGED <<height, width, moves_made, safes, mines, knowledge, board,
                   arg, result, calls, sentence, initial, marks>>

\* ------------------------------------------------------------ Minesweeper
\* Minesweeper.nearby_mines on a board whose mines are the set b.
nearby_mines(b, cell) ==
    Cardinality({c \in Block(cell) : c # cell /\ InBounds(c) /\ c \in b})

\* Minesweeper.is_mine
is_mine(b, cell) == cell \in b

\* The caller's turn: reveal a cell that is not a mine and report the board's
\* count for it.
Reveal(cell) ==
    /\ ~is_mine(board, cell)
    /\ add_knowledge(cell, nearby_mines(board, cell))

\* ---------------------------------------------------------- specifications
InitEngine ==
    /\ \E b \in Boards : height = b[1] /\ width = b[2]
    /\ moves_made = {}
    /\ safes = {}
    /\ mines = {}
    /\ knowledge = <<>>
    /\ op = "init"
    /\ arg = NoArg
    /\ result = NoResult
    /\ calls = 0
    /\ sentence = Sentence({}, 0)
    /\ initial = Sentence({}, 0)
    /\ marks = <<>>
    /\ returned = NoneSet

\* The engine driven directly through its public methods with any arguments;
\* no board is consulted.
Init == InitEngine /\ board = {}

Next ==
    \/ \E cell \in Cells, count \in 0 .. MaxCount :
          calls < MaxCalls /\ add_knowledge(cell, count)
    \/ \E cell \in Cells : calls < MaxCalls /\ mark_mine(cell)
    \/ \E cell \in Cells : calls < MaxCalls /\ mark_safe(cell)
    \/ make_safe_move
    \/ make_random_move

Spec == Init /\ [][Next]_vars

\* The engine driven by a game on one fixed board: every observation is the
\* true neighbouring mine count of a cell that holds no mine.
InitGame == InitEngine /\ board \in SUBSET Cells

NextGame ==
    \/ \E cell \in Cells : calls < MaxReveals /\ Reveal(cell)

SpecGame == InitGame /\ [][NextGame]_vars

\* The same game with the two move queries the game loop makes between
\* observations.
NextPlay ==
    \/ \E cell \in Cells : calls < MaxPlayReveals /\ Reveal(cell)
    \/ make_safe_move
    \/ make_random_move

SpecPlay == InitGame /\ [][NextPlay]_vars

\* A Sentence constructed with any cells and count and driven through its own
\* methods; no engine call is made.
InitSentence ==
    /\ \E b \in SmallBoards : height = b[1] /\ width = b[2]
    /\ moves_made = {}
    /\ safes = {}
    /\ mines = {}
    /\ knowledge = <<>>
    /\ board = {}
    /\ op = "init"
    /\ arg = NoArg
    /\ result = NoResult
    /\ calls = 0
    /\ sentence \in {Sentence(cs, n) : cs \in SUBSET Cells, n \in (-1) .. (MaxCount + 1)}
    /\ initial = sentence
    /\ marks = <<>>
    /\ returned = NoneSet

NextSentence ==
    \/ \E cell \in Cells : Len(marks) < MaxMarks /\ sentence_mark_mine(cell)
    \/ \E cell \in Cells : Len(marks) < MaxMarks /\ sentence_mark_safe(cell)
    \/ sentence_known_mines
    \/ sentence_known_safes

SpecSentence == InitSentence /\ [][NextSentence]_vars

\* ================================================================ claims
\* The in-bounds neighbours of a cell.
Nbrs(cell) == {c \in Block(cell) : c # cell /\ InBounds(c)}

\* The cells make_random_move may return.
Eligible == {c \in Cells : c \notin moves_made /\ c \notin mines}

\* C1: make_safe_move returns a cell of safes that is not in moves_made
\* whenever there is one, and None exactly when safes \ moves_made is empty;
\* it never returns a cell of moves_made.
C1_SafeMoveContract ==
    op = "make_safe_move" =>
        /\ result.kind \in {"cell", "none"}
        /\ (result.kind = "none") <=> (safes \ moves_made = {})
        /\ result.kind = "cell" => result.cell \in safes /\ result.cell \notin moves_made

\* A safe move was returned while some safe cell had already been moved on.
C1_Witness ==
    /\ op = "make_safe_move"
    /\ result.kind = "cell"
    /\ safes \cap moves_made # {}

\* C2: a make_safe_move call leaves moves_made, safes, mines and the
\* knowledge base as they were.
C2_SafeMoveReadOnly ==
    [][op' = "make_safe_move" => UNCHANGED <<moves_made, safes, mines, knowledge>>]_vars

\* make_safe_move returned a cell of an engine that holds sentences.
C2_Witness ==
    /\ op = "make_safe_move"
    /\ result.kind = "cell"
    /\ knowledge # <<>>
    /\ mines # {}

\* C3: under truthful observations of one board, no cell is both in safes
\* and in mines.
C3_SafesMinesDisjoint == safes \cap mines = {}

\* An observation has run and both fact sets hold cells.
C3_Witness ==
    /\ op = "add_knowledge"
    /\ safes # {}
    /\ mines # {}
    /\ calls >= 2

\* C4: make_random_move returns None when no cell is eligible and otherwise
\* an eligible cell; it never raises.
C4_RandomMoveContract ==
    op = "make_random_move" =>
        IF Eligible = {}
        THEN result.kind = "none"
        ELSE result.kind = "cell" /\ result.cell \in Eligible

C6_SubsetResolutionMarksSafe ==
    [][op' = "add_knowledge" =>
        LET e1 == EngineMarkSafe(Current, arg'.cell)
            A  == NewSentence(e1, arg'.cell, arg'.count)
        IN  \A i \in DOMAIN e1.knowledge :
               LET B == e1.knowledge[i]
               IN  (/\ B.count > 0
                    /\ A.count = B.count
                    /\ A.cells \subseteq B.cells
                    /\ A.cells # B.cells)
                   => (B.cells \ A.cells) \subseteq safes']_vars

\* C7: no sentence of the knowledge base has a negative count.
C7_NoNegativeCount ==
    \A i \in DOMAIN knowledge : knowledge[i].count >= 0

\* C8: under truthful observations of one board, every sentence of the
\* knowledge base has 0 <= count <= |cells|.
C8_CountWithinCells ==
    \A i \in DOMAIN knowledge :
        /\ 0 <= knowledge[i].count
        /\ knowledge[i].count <= Cardinality(knowledge[i].cells)

\* A sentence with undetermined cells and a positive count is held after an
\* observation next to a known mine.
C8_Witness ==
    /\ op = "add_knowledge"
    /\ Nbrs(arg.cell) \cap mines # {}
    /\ \E i \in DOMAIN knowledge :
          knowledge[i].count > 0 /\ knowledge[i].cells # {}

\* C9: the knowledge base never holds two structurally equal sentences.
C9_NoDuplicateSentences ==
    \A i, j \in DOMAIN knowledge : i # j => knowledge[i] # knowledge[j]

\* C10: mark_mine(cell) adds cell to mines and, in every sentence that holds
\* cell, removes it and takes one off the count; mark_safe(cell) adds cell to
\* safes and removes it from every sentence, counts unchanged; afterwards no
\* sentence holds cell, and the other sentences, moves_made and the other fact
\* set are unchanged.
C10_MarkFrame ==
    [][/\ op' = "mark_mine" =>
            /\ mines' = mines \cup {arg'.cell}
            /\ UNCHANGED <<safes, moves_made>>
            /\ Len(knowledge') = Len(knowledge)
            /\ \A i \in DOMAIN knowledge :
                 /\ arg'.cell \notin knowledge'[i].cells
                 /\ IF arg'.cell \in knowledge[i].cells
                    THEN /\ knowledge'[i].cells = knowledge[i].cells \ {arg'.cell}
                         /\ knowledge'[i].count = knowledge[i].count - 1
                    ELSE knowledge'[i] = knowledge[i]
       /\ op' = "mark_safe" =>
            /\ safes' = safes \cup {arg'.cell}
            /\ UNCHANGED <<mines, moves_made>>
            /\ Len(knowledge') = Len(knowledge)
            /\ \A i \in DOMAIN knowledge :
                 /\ arg'.cell \notin knowledge'[i].cells
                 /\ IF arg'.cell \in knowledge[i].cells
                    THEN /\ knowledge'[i].cells = knowledge[i].cells \ {arg'.cell}
                         /\ knowledge'[i].count = knowledge[i].count
                    ELSE knowledge'[i] = knowledge[i]]_vars

\* mark_mine ran on a common neighbour of two observed cells while the
\* knowledge base held two sentences, and left a non-empty sentence at count 0.
C10_Witness ==
    /\ op = "mark_mine"
    /\ calls = 3
    /\ Len(knowledge) >= 2
    /\ Cardinality(moves_made) = 2
    /\ arg.cell \notin safes
    /\ \A m \in moves_made : arg.cell \in Nbrs(m)
    /\ \E i \in DOMAIN knowledge :
          knowledge[i].count = 0 /\ knowledge[i].cells # {}

\* The sentence new_knowledge_sentence of the add_knowledge(cell, count) call
\* made in the current state, as it stands when the resolution loop starts.
NewAfterConclusions(cell, count) ==
    LET e1  == EngineMarkSafe(Current, cell)
        kb1 == Append(e1.knowledge, NewSentence(e1, cell, count))
    IN  ConclusionPass(Engine(e1.safes, e1.mines, kb1), 1).knowledge[Len(kb1)]

StrictSubset(a, b) == a \subseteq b /\ a # b

\* C13: when add_knowledge returns, no sentence of the knowledge base has a
\* non-empty cell set with count 0 or with count equal to its cardinality.
C13_ConclusionsAtFixedPoint ==
    op = "add_knowledge" =>
        \A i \in DOMAIN knowledge :
            knowledge[i].cells # {} =>
                /\ knowledge[i].count # 0
                /\ knowledge[i].count # Cardinality(knowledge[i].cells)

\* C14: when add_knowledge returns, for every sentence S of the knowledge
\* base that forms with the new sentence N a pair with both counts positive
\* and one cell set a strict subset of the other, in either direction, the
\* sentence (superset.cells - subset.cells, superset.count - subset.count) is
\* in the knowledge base.
C14_ResolutionBothDirections ==
    [][op' = "add_knowledge" =>
        LET N == NewAfterConclusions(arg'.cell, arg'.count)
        IN  \A i \in DOMAIN knowledge' :
               LET S == knowledge'[i]
               IN  /\ (N.count > 0 /\ S.count > 0 /\ StrictSubset(N.cells, S.cells))
                      => InList(knowledge', Sentence(S.cells \ N.cells, S.count - N.count))
                   /\ (N.count > 0 /\ S.count > 0 /\ StrictSubset(S.cells, N.cells))
                      => InList(knowledge', Sentence(N.cells \ S.cells, N.count - S.count))]_vars

\* C15: when add_knowledge returns, the knowledge base holds no sentence whose
\* cell set is empty.
C15_NoEmptySentence ==
    op = "add_knowledge" =>
        \A i \in DOMAIN knowledge : knowledge[i].cells # {}

\* C19: after every add_knowledge, mark_safe or mark_mine call no sentence
\* holds a cell that is in safes or in mines, and every cell of every
\* sentence is on the board.
C19_SentencesHoldUndeterminedCells ==
    op \in {"add_knowledge", "mark_safe", "mark_mine"} =>
        \A i \in DOMAIN knowledge :
            /\ knowledge[i].cells \cap (safes \cup mines) = {}
            /\ knowledge[i].cells \subseteq Cells

\* An observation that synthesized a sentence by subset resolution returned
\* while cells were classified both ways.
C19_Witness ==
    /\ op = "add_knowledge"
    /\ calls = 3
    /\ Len(knowledge) >= 4
    /\ \E i \in DOMAIN knowledge : knowledge[i].cells # {}
    /\ safes # {}
    /\ mines # {}

\* C20: under truthful observations of one board every cell in mines is a
\* mine of the board, no cell in safes is one, and no cell make_safe_move can
\* return is one.
C20_DeductionSound ==
    /\ mines \subseteq board
    /\ safes \cap board = {}
    /\ \A r \in SafeMoveResults(safes, moves_made) :
          r.kind = "cell" => ~is_mine(board, r.cell)

\* Both kinds of conclusion have been drawn and a safe move is on offer.
C20_Witness ==
    /\ op = "add_knowledge"
    /\ mines # {}
    /\ safes \ moves_made # {}
    /\ board \ mines # {}

\* The baseline dictionary of make_random_move for a board of t mines.
BaselineFor(t, mm, mn) ==
    [c \in {x \in Cells : x \notin mm /\ x \notin mn} |->
        <<t - Cardinality(mn), num_possible_moves(mm, mn)>>]

\* C12: on a board of T mines the cell make_random_move returns minimizes the
\* estimates whose baseline is (T - |mines|) / (height * width - |moves_made|
\* - |mines|).
C12_BaselineUsesBoardMines ==
    [][(op' = "make_random_move" /\ result'.kind = "cell") =>
        result'.cell \in
            BestMoves(Scan(knowledge, 1,
                           BaselineFor(Cardinality(board), moves_made, mines)
                          ).possible_moves)]_vars

\* The estimates the scan is to leave: for a cell of some non-empty sentence
\* the ratio of the last such sentence in list order, else the baseline.
EstimatesByLastSentence(kb, pm) ==
    [c \in DOMAIN pm |->
        LET covering == {i \in DOMAIN kb : kb[i].cells # {} /\ c \in kb[i].cells}
        IN  IF covering = {} THEN pm[c]
            ELSE LET j == CHOOSE i \in covering : \A k \in covering : k <= i
                 IN  <<kb[j].count, Cardinality(kb[j].cells)>>]

\* C16: the cell make_random_move returns has the minimum estimate among the
\* eligible cells, where a cell of at least one non-empty sentence has the
\* estimate count / |cells| of the last such sentence of the list and any other
\* cell has the baseline, whatever empty sentences the scan prunes.
C16_EstimateOfLastSentence ==
    [][(op' = "make_random_move" /\ result'.kind = "cell") =>
        result'.cell \in
            BestMoves(EstimatesByLastSentence(knowledge,
                                              BaselineMoves(moves_made, mines)))]_vars

\* The knowledge list and new_knowledge_sentence of the add_knowledge(cell,
\* count) call made in the current state, when the resolution loop starts.
ListBeforeResolution(cell, count) ==
    LET e1  == EngineMarkSafe(Current, cell)
        kb1 == Append(e1.knowledge, NewSentence(e1, cell, count))
    IN  ConclusionPass(Engine(e1.safes, e1.mines, kb1), 1).knowledge

RECURSIVE SumOver(_, _)
SumOver(S, new) ==
    IF S = {} THEN 0
    ELSE LET x == CHOOSE y \in S : TRUE
         IN  (IF new.cells = {} THEN x.count ELSE 1) + SumOver(S \ {x}, new)

\* A bound on the sentences the resolution loop can append to the list kb:
\* each distinct sentence that the new one resolves against yields one derived
\* sentence, or, when the new sentence is empty, a chain of sentences over the
\* same cells whose positive counts decrease.
AppendBound(kb, new) ==
    SumOver({kb[i] : i \in {j \in DOMAIN kb :
                               /\ new.cells # kb[j].cells
                               /\ new.cells \subseteq kb[j].cells
                               /\ kb[j].count > 0
                               /\ new.count > 0}}, new)

\* C17: the resolution loop of every add_knowledge call ends: it visits at
\* most the sentences of the list it starts with plus a bounded number of
\* appended ones, also when the new sentence is empty with a positive count.
C17_ResolutionVisitsBounded ==
    [][op' = "add_knowledge" =>
        LET kb  == ListBeforeResolution(arg'.cell, arg'.count)
            new == NewAfterConclusions(arg'.cell, arg'.count)
        IN  ResolutionVisits(kb, 1, new) <= Len(kb) + AppendBound(kb, new)]_vars

\* An observation whose neighbours are all known safe reported a positive
\* count, so its sentence is empty with a positive count, and the list holds
\* two sentences over the same cells whose counts differ by that count.
C17_Witness ==
    /\ op = "add_knowledge"
    /\ arg.count > 0
    /\ mines = {}
    /\ Nbrs(arg.cell) \subseteq safes
    /\ \E i, j \in DOMAIN knowledge :
          /\ knowledge[i].cells = knowledge[j].cells
          /\ knowledge[i].cells # {}
          /\ knowledge[i].count = knowledge[j].count + arg.count

\* C11: known_mines returns the sentence's full cell set exactly when
\* |cells| = count and count # 0 and none in every other case, the empty
\* sentence with count 0 included, on which known_safes returns the empty set
\* and not none.
C11_KnownMinesContract ==
    /\ op = "Sentence.known_mines" =>
          IF Cardinality(sentence.cells) = sentence.count /\ sentence.count # 0
          THEN ~returned.isNone /\ returned.cells = sentence.cells
          ELSE returned.isNone
    /\ (op = "Sentence.known_safes" /\ sentence = Sentence({}, 0)) =>
          ~returned.isNone /\ returned.cells = {}

\* A sentence that two marks emptied, with count 0, was asked for its mines.
C11_Witness ==
    /\ op = "Sentence.known_mines"
    /\ Len(marks) = 2
    /\ initial.cells # {}
    /\ sentence = Sentence({}, 0)
    /\ returned.isNone

\* C18: a Sentence constructed with 0 <= count <= |cells| does not have
\* count < 0 after mark_mine of one cell followed by mark_safe of another.
C18_MineThenSafeKeepsCount ==
    (/\ Len(marks) = 2
     /\ marks[1].op = "mark_mine"
     /\ marks[2].op = "mark_safe"
     /\ marks[1].cell # marks[2].cell
     /\ 0 <= initial.count
     /\ initial.count <= Cardinality(initial.cells))
    => sentence.count >= 0

=============================================================================
